---------------------------- MODULE Spec2Model ----------------------------
(***************************************************************************)
(* Model of src/sensor.py (Python 2): the traffic sensor emitter.          *)
(*                                                                         *)
(* run() reads six positional arguments, builds the weighted vehicle list  *)
(* once and then loops forever: sample a batch, POST it as JSON, sleep.    *)
(*                                                                         *)
(* Byte strings (sys.argv entries, JSON text) are sequences of byte        *)
(* values; vehicle labels are the strings "car", "motorcycle" and "bus".   *)
(* An uncaught exception ends the process: pc = "exit" with exc naming     *)
(* the exception (the interpreter then exits with status 1).               *)
(***************************************************************************)
EXTENDS Integers, Sequences, FiniteSets

\* ------------------------------------------------------------------ bounds

\* Weights explored: -1 .. MaxWeight.
MaxWeight == 2
\* Batch sizes explored: -1 .. MaxBatch.
MaxBatch == 2
\* Periods explored: -1 .. MaxPeriod.
MaxPeriod == 1
\* Length of the location strings explored.
MaxLocLen == 2
\* Length of the arbitrary (possibly malformed) numeric argument strings.
MaxArgLen == 2
\* The cycle counter saturates here (the loop itself is not bounded).
MaxCycle == 2

\* ------------------------------------------------------------- the inputs

\* All sequences over S of length at most k.
SeqsUpTo(S, k) == UNION {[1..m -> S] : m \in 0..k}

RECURSIVE Digits(_)
\* The decimal digits of n >= 0, as bytes.
Digits(n) == IF n < 10 THEN <<48 + n>> ELSE Digits(n \div 10) \o <<48 + (n % 10)>>

\* The decimal text of an integer, as a command line would give it.
ToStr(n) == IF n < 0 THEN <<45>> \o Digits(-n) ELSE Digits(n)

\* Bytes of the locations explored: a, ", \, and the two bytes 0xC3 0xA9
\* (together the UTF-8 form of U+00E9, alone or reversed not valid UTF-8).
LocBytes == {97, 34, 92, 195, 169}

Locations == SeqsUpTo(LocBytes, MaxLocLen)

\* Bytes of the arbitrary numeric arguments: space, +, -, 0, x.
ArgBytes == {32, 43, 45, 48, 120}

ArgStrings == SeqsUpTo(ArgBytes, MaxArgLen)

\* Six arguments, the weights and the batch size over the explored ranges,
\* period 0.
NumericArgv ==
    {<<(<<97>>), ToStr(a), ToStr(b), ToStr(c), ToStr(k), ToStr(0)>> :
        a \in -1..MaxWeight, b \in -1..MaxWeight, c \in -1..MaxWeight,
        k \in -1..MaxBatch}

\* Six arguments, the period over the explored range, weights and batch
\* size 0 or 1.
PeriodArgv ==
    {<<(<<97>>), ToStr(a), ToStr(b), ToStr(c), ToStr(k), ToStr(p)>> :
        a \in 0..1, b \in 0..1, c \in 0..1, k \in 0..1, p \in -1..MaxPeriod}

\* Six arguments, every explored location, one fixed valid configuration.
LocationArgv ==
    {<<loc, ToStr(1), ToStr(0), ToStr(1), ToStr(1), ToStr(0)>> : loc \in Locations}

BaseArgv == <<(<<97>>), ToStr(1), ToStr(1), ToStr(1), ToStr(1), ToStr(0)>>

\* One numeric argument replaced by an arbitrary string, and the argument
\* vector cut to any length from 0 to 6; and one vector with a seventh argument.
ArbitraryArgv ==
    {SubSeq([BaseArgv EXCEPT ![k] = s], 1, m) :
        k \in 2..6, s \in ArgStrings, m \in 0..6}
    \cup {BaseArgv \o << <<120>> >>}

\* --------------------------------------------------------- int(sys.argv[k])

IsSpace(b) == b \in {32, 9, 10, 11, 12, 13}
IsDigit(b) == b \in 48..57

RECURSIVE LStrip(_)
LStrip(s) == IF s # <<>> /\ IsSpace(Head(s)) THEN LStrip(Tail(s)) ELSE s

RECURSIVE RStrip(_)
RStrip(s) ==
    IF s # <<>> /\ IsSpace(s[Len(s)]) THEN RStrip(SubSeq(s, 1, Len(s) - 1)) ELSE s

RECURSIVE DigitsValue(_, _)
\* The value of a run of decimal digits, acc being the value read so far.
DigitsValue(s, acc) ==
    IF s = <<>> THEN acc ELSE DigitsValue(Tail(s), 10 * acc + (Head(s) - 48))

RECURSIVE LeadingDigits(_)
LeadingDigits(s) ==
    IF s # <<>> /\ IsDigit(Head(s)) THEN <<Head(s)>> \o LeadingDigits(Tail(s)) ELSE <<>>

\* A lenient parser, as C's atoi: the leading digits after whitespace and a
\* sign, 0 when there are none; it never fails.
ParseIntLenient(s) ==
    LET t      == LStrip(s)
        signed == t # <<>> /\ Head(t) \in {43, 45}
        v      == DigitsValue(LeadingDigits(IF signed THEN Tail(t) ELSE t), 0)
    IN  [ok |-> TRUE, val |-> IF signed /\ Head(t) = 45 THEN 0 - v ELSE v]

\* Python 2's int(s) on a byte string, base 10: surrounding whitespace is
\* dropped, one sign is allowed, then at least one digit and only digits.
\* ok = FALSE stands for ValueError.
ParseInt(s) ==
    LET t      == RStrip(LStrip(s))
        signed == t # <<>> /\ Head(t) \in {43, 45}
        d      == IF signed THEN Tail(t) ELSE t
    IN  IF d = <<>> \/ \E i \in 1..Len(d) : ~IsDigit(d[i])
        THEN [ok |-> FALSE, val |-> 0]
        ELSE [ok |-> TRUE,
              val |-> IF signed /\ Head(t) = 45
                      THEN 0 - DigitsValue(d, 0) ELSE DigitsValue(d, 0)]


\* ------------------------------------------------- the vehicle distribution

Labels == {"car", "motorcycle", "bus"}

RECURSIVE Repeat(_, _)
\* Python's [x] * k: k copies of x, and the empty list when k <= 0.
Repeat(x, k) == IF k <= 0 THEN <<>> ELSE <<x>> \o Repeat(x, k - 1)

\* The distribution without its last term.
DistributionNoBus(c, m, b) == Repeat("car", c) \o Repeat("motorcycle", m)

\* ['car']*cw + ['motorcycle']*mw + ['bus']*bw
Distribution(c, m, b) ==
    Repeat("car", c) \o Repeat("motorcycle", m) \o Repeat("bus", b)

\* ------------------------------------------------------------- json.dumps

\* The bytes of a vehicle label (ASCII).
LabelBytes(l) ==
    CASE l = "car"        -> <<99, 97, 114>>
      [] l = "motorcycle" -> <<109, 111, 116, 111, 114, 99, 121, 99, 108, 101>>
      [] l = "bus"        -> <<98, 117, 115>>

RECURSIVE Utf8Decode(_)
\* str.decode('utf-8'), for one- and two-byte sequences (lead bytes of
\* longer sequences are outside LocBytes): the code points, or ok = FALSE
\* for UnicodeDecodeError.
Utf8Decode(s) ==
    IF s = <<>> THEN [ok |-> TRUE, cps |-> <<>>]
    ELSE IF Head(s) < 128
    THEN LET r == Utf8Decode(Tail(s))
         IN  [ok |-> r.ok, cps |-> <<Head(s)>> \o r.cps]
    ELSE IF Head(s) \in 194..223 /\ Len(s) >= 2 /\ s[2] \in 128..191
    THEN LET r == Utf8Decode(Tail(Tail(s)))
         IN  [ok |-> r.ok, cps |-> <<(Head(s) - 192) * 64 + (s[2] - 128)>> \o r.cps]
    ELSE [ok |-> FALSE, cps |-> <<>>]

\* One lower-case hexadecimal digit, as a byte.
HexDigit(d) == IF d < 10 THEN 48 + d ELSE 87 + d

\* json's escape of one code point below 0x10000 (ensure_ascii=True).
EscapeChar(cp) ==
    CASE cp = 34 -> <<92, 34>>
      [] cp = 92 -> <<92, 92>>
      [] cp = 10 -> <<92, 110>>
      [] cp = 13 -> <<92, 114>>
      [] cp = 9  -> <<92, 116>>
      [] cp = 8  -> <<92, 98>>
      [] cp = 12 -> <<92, 102>>
      [] OTHER   ->
            IF cp \in 32..126 THEN <<cp>>
            ELSE <<92, 117, HexDigit((cp \div 4096) % 16), HexDigit((cp \div 256) % 16),
                   HexDigit((cp \div 16) % 16), HexDigit(cp % 16)>>

RECURSIVE EscapeAll(_)
EscapeAll(cps) == IF cps = <<>> THEN <<>> ELSE EscapeChar(Head(cps)) \o EscapeAll(Tail(cps))

\* The text put between the quotes with no escaping at all, as string
\* formatting ('"%s"' % s) would.
EncodeStringRaw(s) == [ok |-> TRUE, text |-> s]

\* json.dumps of one byte string: the text between the quotes of the string
\* literal. A str is decoded as UTF-8 first; ok = FALSE stands for the
\* UnicodeDecodeError that json.dumps lets through.
EncodeString(s) ==
    LET u == Utf8Decode(s)
    IN  [ok |-> u.ok, text |-> IF u.ok THEN EscapeAll(u.cps) ELSE <<>>]

\* json.dumps({'location': loc, 'data': vs}). The object and the array are
\* kept as a record and a sequence; every string literal is its JSON text.
Dumps(loc, vs) ==
    LET l == EncodeString(loc)
    IN  [ok   |-> l.ok,
         body |-> [location |-> l.text,
                   data     |-> [i \in 1..Len(vs) |-> EncodeString(LabelBytes(vs[i])).text]]]

\* ------------------------------------------------------------------ state

VARIABLES
    argv,                  \* sys.argv[1:], argv[k] being sys.argv[k]
    pc,                    \* parse, build, cycle, draw, post, sleep, exit
    exc,                   \* the uncaught exception that ended the process, or "none"
    location, cw, mw, bw, num_vehicles, period,      \* the locals of run()
    vehicle_distribution,  \* the local of line 31
    pool_bound,            \* whether vehicle_distribution has been assigned
    vehicles,              \* the batch of the current cycle
    n,                     \* iterations of the for loop of line 35 done so far
    wire,                  \* the last request handed to requests.post, or NoRequest
    drawn,                 \* history: what random.choice returned this cycle, in order
    posts,                 \* history: POSTs issued since the current cycle began
    sleeps,                \* history: sleeps completed since the last POST
    cycle                  \* history: number of the current cycle, saturating at MaxCycle

config == <<location, cw, mw, bw, num_vehicles, period, vehicle_distribution>>

vars == <<argv, pc, exc, location, cw, mw, bw, num_vehicles, period,
          vehicle_distribution, pool_bound, vehicles, n, wire, drawn, posts,
          sleeps, cycle>>

NoRequest == [url |-> "none", content_type |-> "none",
              body |-> [location |-> <<>>, data |-> <<>>]]

URL == "http://localhost:8080/sensorapi/data"

Init ==
    /\ argv \in NumericArgv \cup PeriodArgv \cup LocationArgv \cup ArbitraryArgv
    /\ pc = "parse"
    /\ exc = "none"
    /\ location = <<>>
    /\ cw = 0 /\ mw = 0 /\ bw = 0 /\ num_vehicles = 0 /\ period = 0
    /\ vehicle_distribution = <<>>
    /\ pool_bound = FALSE
    /\ vehicles = <<>>
    /\ n = 0
    /\ wire = NoRequest
    /\ drawn = <<>>
    /\ posts = 0
    /\ sleeps = 0
    /\ cycle = 1

\* ---------------------------------------------------------------- startup

\* int(sys.argv[k]): IndexError when the argument is missing, ValueError
\* when it is no integer literal.
ArgInt(k) ==
    IF Len(argv) < k THEN [exc |-> "IndexError", val |-> 0]
    ELSE LET r == ParseInt(argv[k])
         IN  [exc |-> IF r.ok THEN "none" ELSE "ValueError", val |-> r.val]

\* The first exception raised by lines 21-26, evaluated in order.
RECURSIVE FirstExc(_)
FirstExc(k) ==
    IF k > 6 THEN "none"
    ELSE IF k = 1 THEN (IF Len(argv) < 1 THEN "IndexError" ELSE FirstExc(2))
    ELSE IF ArgInt(k).exc # "none" THEN ArgInt(k).exc ELSE FirstExc(k + 1)

Raise(e) ==
    /\ pc' = "exit"
    /\ exc' = e

\* Lines 21-26: the six locals from sys.argv.
ParseArgs ==
    /\ pc = "parse"
    /\ IF FirstExc(1) # "none"
       THEN /\ Raise(FirstExc(1))
            /\ UNCHANGED <<location, cw, mw, bw, num_vehicles, period>>
       ELSE /\ location' = argv[1]
            /\ cw' = ArgInt(2).val
            /\ mw' = ArgInt(3).val
            /\ bw' = ArgInt(4).val
            /\ num_vehicles' = ArgInt(5).val
            /\ period' = ArgInt(6).val
            /\ pc' = "build"
            /\ exc' = exc
    /\ UNCHANGED <<argv, vehicle_distribution, pool_bound, vehicles, n, wire,
                   drawn, posts, sleeps, cycle>>

\* Lines 27-31: the two prints and the vehicle distribution.
BuildPool ==
    /\ pc = "build"
    /\ vehicle_distribution' = Distribution(cw, mw, bw)
    /\ pool_bound' = TRUE
    /\ pc' = "cycle"
    /\ UNCHANGED <<argv, exc, location, cw, mw, bw, num_vehicles, period,
                   vehicles, n, wire, drawn, posts, sleeps, cycle>>

\* --------------------------------------------------------------- the loop

\* Lines 33-35 with the batch kept from the cycle before.
BeginCycleKeep ==
    /\ pc = "cycle"
    /\ n' = 0
    /\ drawn' = <<>>
    /\ posts' = 0
    /\ pc' = "draw"
    /\ UNCHANGED <<argv, exc, location, cw, mw, bw, num_vehicles, period,
                   vehicle_distribution, pool_bound, vehicles, wire, sleeps, cycle>>

\* Lines 33-35: while True; vehicles = []; the for loop starts.
BeginCycle ==
    /\ pc = "cycle"
    /\ vehicles' = <<>>
    /\ n' = 0
    /\ drawn' = <<>>
    /\ posts' = 0
    /\ pc' = "draw"
    /\ UNCHANGED <<argv, exc, location, cw, mw, bw, num_vehicles, period,
                   vehicle_distribution, pool_bound, wire, sleeps, cycle>>

\* Line 36 drawing without replacement: the chosen entry leaves the list.
DrawRemove ==
    /\ pc = "draw"
    /\ n < num_vehicles
    /\ IF vehicle_distribution = <<>>
       THEN /\ Raise("IndexError")
            /\ UNCHANGED <<vehicles, n, drawn, vehicle_distribution>>
       ELSE /\ \E i \in 1..Len(vehicle_distribution) :
                 /\ vehicles' = Append(vehicles, vehicle_distribution[i])
                 /\ drawn' = Append(drawn, vehicle_distribution[i])
                 /\ vehicle_distribution' =
                        SubSeq(vehicle_distribution, 1, i - 1)
                        \o SubSeq(vehicle_distribution, i + 1, Len(vehicle_distribution))
            /\ n' = n + 1
            /\ UNCHANGED <<pc, exc>>
    /\ UNCHANGED <<argv, location, cw, mw, bw, num_vehicles, period,
                   pool_bound, wire, posts, sleeps, cycle>>

\* Lines 35-36, one iteration: random.choice picks an index uniformly and
\* raises IndexError on an empty list; the label is appended to the batch.
Draw ==
    /\ pc = "draw"
    /\ n < num_vehicles
    /\ IF vehicle_distribution = <<>>
       THEN /\ Raise("IndexError")
            /\ UNCHANGED <<vehicles, n, drawn>>
       ELSE /\ \E i \in 1..Len(vehicle_distribution) :
                 /\ vehicles' = Append(vehicles, vehicle_distribution[i])
                 /\ drawn' = Append(drawn, vehicle_distribution[i])
            /\ n' = n + 1
            /\ UNCHANGED <<pc, exc>>
    /\ UNCHANGED <<argv, location, cw, mw, bw, num_vehicles, period,
                   vehicle_distribution, pool_bound, wire, posts, sleeps, cycle>>

\* Line 35: range(0, num_vehicles) is exhausted (at once when num_vehicles <= 0).
EndDraw ==
    /\ pc = "draw"
    /\ n >= num_vehicles
    /\ pc' = "post"
    /\ UNCHANGED <<argv, exc, location, cw, mw, bw, num_vehicles, period,
                   vehicle_distribution, pool_bound, vehicles, n, wire, drawn,
                   posts, sleeps, cycle>>

\* The payload with string formatting in place of json.dumps.
PayloadRaw(loc, vs) ==
    [ok   |-> TRUE,
     body |-> [location |-> EncodeStringRaw(loc).text,
               data     |-> [i \in 1..Len(vs) |-> EncodeStringRaw(LabelBytes(vs[i])).text]]]

\* Lines 39-43: json.dumps(data) of {'location': location, 'data': vehicles}.
Payload(loc, vs) == Dumps(loc, vs)

\* Lines 38-43 with a retry: a failed POST is issued again.
PostRetry ==
    /\ pc = "post"
    /\ LET d == Payload(location, vehicles)
       IN  IF ~d.ok
           THEN /\ Raise("UnicodeDecodeError")
                /\ UNCHANGED <<wire, posts, sleeps>>
           ELSE /\ wire' = [url |-> URL, content_type |-> "application/json",
                            body |-> d.body]
                /\ posts' = posts + 1
                /\ sleeps' = 0
                /\ \E outcome \in {"response", "ConnectionError"} :
                      /\ pc' = IF outcome = "response" THEN "sleep" ELSE "post"
                      /\ exc' = exc
    /\ UNCHANGED <<argv, location, cw, mw, bw, num_vehicles, period,
                   vehicle_distribution, pool_bound, vehicles, n, drawn, cycle>>

\* Lines 38-43: the headers, the payload and requests.post, which returns a
\* response (of any status, never read) or raises on a transport failure.
\* Nothing catches either exception.
Post ==
    /\ pc = "post"
    /\ LET d == Payload(location, vehicles)
       IN  IF ~d.ok
           THEN /\ Raise("UnicodeDecodeError")
                /\ UNCHANGED <<wire, posts, sleeps>>
           ELSE /\ wire' = [url |-> URL, content_type |-> "application/json",
                            body |-> d.body]
                /\ posts' = posts + 1
                /\ sleeps' = 0
                /\ \E outcome \in {"response", "ConnectionError"} :
                      IF outcome = "response"
                      THEN pc' = "sleep" /\ exc' = exc
                      ELSE Raise(outcome)
    /\ UNCHANGED <<argv, location, cw, mw, bw, num_vehicles, period,
                   vehicle_distribution, pool_bound, vehicles, n, drawn, cycle>>

\* Line 45: time.sleep(period), which raises IOError (EINVAL from select)
\* on a negative period; then the next iteration of while True.
Sleep ==
    /\ pc = "sleep"
    /\ IF period < 0
       THEN /\ Raise("IOError")
            /\ UNCHANGED <<sleeps, cycle>>
       ELSE /\ sleeps' = sleeps + 1
            /\ cycle' = IF cycle < MaxCycle THEN cycle + 1 ELSE cycle
            /\ pc' = "cycle"
            /\ exc' = exc
    /\ UNCHANGED <<argv, location, cw, mw, bw, num_vehicles, period,
                   vehicle_distribution, pool_bound, vehicles, n, wire, drawn, posts>>

Next ==
    \/ ParseArgs
    \/ BuildPool
    \/ BeginCycle
    \/ Draw
    \/ EndDraw
    \/ Post
    \/ Sleep

Spec == Init /\ [][Next]_vars

\* The interpreter runs the one thread of run() whenever it can take a step.
FairSpec == Spec /\ WF_vars(Next)

\* --------------------------------------------- what the properties speak of

\* s is a base-10 integer literal as int() accepts it: optional whitespace,
\* an optional sign, one or more digits, optional whitespace.
IsIntLiteral(s) ==
    \E a \in 0..Len(s), b \in 0..Len(s) :
        /\ a < b
        /\ \A i \in 1..a : IsSpace(s[i])
        /\ \A i \in (b + 1)..Len(s) : IsSpace(s[i])
        /\ \/ \A i \in (a + 1)..b : IsDigit(s[i])
           \/ /\ a + 1 < b
              /\ s[a + 1] \in {43, 45}
              /\ \A i \in (a + 2)..b : IsDigit(s[i])

\* Fewer than six arguments, or a numeric argument that is no integer literal.
BadArgv == Len(argv) < 6 \/ \E k \in 2..6 : ~IsIntLiteral(argv[k])

Count(s, x) == Cardinality({i \in DOMAIN s : s[i] = x})

Weight(l) == CASE l = "car" -> cw [] l = "motorcycle" -> mw [] l = "bus" -> bw

HexValue(b) ==
    CASE b \in 48..57  -> b - 48
      [] b \in 97..102 -> b - 87
      [] b \in 65..70  -> b - 55
      [] OTHER         -> -1

RECURSIVE Unescape(_)
\* The code points a JSON reader gets from the text of a string literal;
\* ok = FALSE when the text is no string literal (a bare quote, a broken escape).
Unescape(t) ==
    IF t = <<>> THEN [ok |-> TRUE, cps |-> <<>>]
    ELSE IF Head(t) = 34 \/ Head(t) < 32 THEN [ok |-> FALSE, cps |-> <<>>]
    ELSE IF Head(t) # 92
    THEN LET r == Unescape(Tail(t)) IN [ok |-> r.ok, cps |-> <<Head(t)>> \o r.cps]
    ELSE IF Len(t) < 2 THEN [ok |-> FALSE, cps |-> <<>>]
    ELSE IF t[2] = 117
    THEN IF Len(t) < 6 \/ \E i \in 3..6 : HexValue(t[i]) < 0
         THEN [ok |-> FALSE, cps |-> <<>>]
         ELSE LET r == Unescape(SubSeq(t, 7, Len(t)))
                  v == HexValue(t[3]) * 4096 + HexValue(t[4]) * 256
                       + HexValue(t[5]) * 16 + HexValue(t[6])
              IN  [ok |-> r.ok, cps |-> <<v>> \o r.cps]
    ELSE LET r == Unescape(SubSeq(t, 3, Len(t)))
             c == CASE t[2] = 34  -> 34
                    [] t[2] = 92  -> 92
                    [] t[2] = 47  -> 47
                    [] t[2] = 110 -> 10
                    [] t[2] = 114 -> 13
                    [] t[2] = 116 -> 9
                    [] t[2] = 98  -> 8
                    [] t[2] = 102 -> 12
                    [] OTHER      -> -1
         IN  [ok |-> r.ok /\ c >= 0, cps |-> <<c>> \o r.cps]

\* What a JSON reader decodes from a string literal of a UTF-8 request body.
JsonStringValue(t) ==
    LET u == Utf8Decode(t)
    IN  IF u.ok THEN Unescape(u.cps) ELSE [ok |-> FALSE, cps |-> <<>>]

\* The text of a byte string as code points.
Text(s) == Utf8Decode(s).cps

\* A request has been issued (in this cycle or an earlier one).
Posted == wire # NoRequest

\* The request on the wire is the one of the current cycle.
PostedThisCycle == Posted /\ posts >= 1

InLoop == pc \in {"cycle", "draw", "post", "sleep"}

ValidConfig ==
    /\ pool_bound
    /\ vehicle_distribution # <<>>
    /\ num_vehicles >= 0
    /\ period >= 0

\* ------------------------------------------------------------- properties

\* C1: a transport failure of the HTTP POST does not terminate the process
\* (the loop goes on to the sleep and to the next cycle's POST); stated for
\* a valid configuration, where nothing else can end the loop.
C1_FailedPostDoesNotTerminate ==
    ValidConfig => ~(pc = "exit" /\ exc = "ConnectionError")

\* C2: with all three weights zero no HTTP POST is ever issued, whatever the
\* batch size and the period are.
C2_ZeroWeightsNeverPost ==
    (pool_bound /\ cw = 0 /\ mw = 0 /\ bw = 0) => ~Posted

\* C3: with a negative weight, batch size or period no HTTP POST is ever
\* issued; stated for a non-empty vehicle distribution, which sets the case
\* of C2 aside.
C3_NegativeNeverPosts ==
    (/\ pool_bound
     /\ vehicle_distribution # <<>>
     /\ (cw < 0 \/ mw < 0 \/ bw < 0 \/ num_vehicles < 0 \/ period < 0))
        => ~Posted

\* C4: with fewer than six arguments, or a numeric argument that is no
\* integer, the program never gets past the argument parsing: it ends in an
\* uncaught IndexError or ValueError (exit status 1), the vehicle distribution
\* is never built and no HTTP POST is issued.
C4_BadArgumentsFailFirst ==
    BadArgv =>
        /\ pc \in {"parse", "exit"}
        /\ pc = "exit" => exc \in {"IndexError", "ValueError"}
        /\ ~pool_bound
        /\ ~Posted

C4_Witness ==
    /\ pc = "exit"
    /\ exc = "ValueError"
    /\ Len(argv) = 6
    /\ BadArgv

\* C5: for non-negative weights with at least one positive, the vehicle
\* distribution built at startup has length cw + mw + bw and holds "car" cw
\* times, "motorcycle" mw times and "bus" bw times.
C5_PoolCounts ==
    (pool_bound /\ cw >= 0 /\ mw >= 0 /\ bw >= 0 /\ cw + mw + bw >= 1) =>
        /\ Len(vehicle_distribution) = cw + mw + bw
        /\ Count(vehicle_distribution, "car") = cw
        /\ Count(vehicle_distribution, "motorcycle") = mw
        /\ Count(vehicle_distribution, "bus") = bw

C5_Witness ==
    /\ pool_bound
    /\ cw = 2 /\ mw = 0 /\ bw = 1
    /\ Len(vehicle_distribution) = 3

\* C6: for a batch size >= 0, the batch sent in every cycle has exactly
\* batch-size entries, each the label of a category whose weight is positive
\* (nothing is carried over from an earlier cycle).
C6_BatchShape ==
    (Posted /\ num_vehicles >= 0) =>
        /\ Len(wire.body.data) = num_vehicles
        /\ \A i \in 1..Len(wire.body.data) :
              \E l \in Labels :
                 /\ Weight(l) > 0
                 /\ JsonStringValue(wire.body.data[i]) =
                        [ok |-> TRUE, cps |-> LabelBytes(l)]

C6_Witness ==
    /\ cycle >= 2
    /\ pc = "sleep"
    /\ num_vehicles = 2
    /\ cw > 0 /\ mw = 0 /\ bw = 0
    /\ Len(wire.body.data) = 2

\* C7: the payload of every POST decodes to the location given at startup
\* and to the batch drawn in that same cycle, in draw order, of length
\* batch-size (for a batch size >= 0); it goes to URL as application/json.
C7_PayloadIsTheBatch ==
    PostedThisCycle =>
        /\ wire.url = URL
        /\ wire.content_type = "application/json"
        /\ JsonStringValue(wire.body.location) = [ok |-> TRUE, cps |-> Text(argv[1])]
        /\ Len(wire.body.data) = Len(drawn)
        /\ \A i \in 1..Len(drawn) :
              JsonStringValue(wire.body.data[i]) =
                  [ok |-> TRUE, cps |-> LabelBytes(drawn[i])]
        /\ num_vehicles >= 0 => Len(wire.body.data) = num_vehicles

C7_Witness ==
    /\ PostedThisCycle
    /\ argv[1] = <<92, 34>>
    /\ Len(drawn) = 1

\* C8: each cycle samples, then POSTs, then sleeps: no sleep precedes the
\* first POST, a batch is POSTed exactly once, and exactly one sleep lies
\* between two consecutive POSTs.
C8_SamplePostSleep ==
    /\ posts <= 1
    /\ sleeps <= 1
    /\ pc \in {"parse", "build"} => ~Posted /\ posts = 0 /\ sleeps = 0
    /\ (InLoop /\ cycle = 1 /\ pc # "sleep") => ~Posted /\ posts = 0 /\ sleeps = 0
    /\ pc = "cycle" /\ cycle > 1 => Posted /\ posts = 1 /\ sleeps = 1
    /\ pc \in {"draw", "post"} /\ cycle > 1 => Posted /\ posts = 0 /\ sleeps = 1
    /\ pc = "post" => n >= num_vehicles /\ Len(drawn) = n
    /\ pc = "sleep" => Posted /\ posts = 1 /\ sleeps = 0

C8_Witness ==
    /\ pc = "sleep"
    /\ cycle >= 2
    /\ period > 0
    /\ posts = 1

\* C9: with a valid configuration the loop never ends by itself: every POST
\* is followed by the start of another cycle and every cycle by its POST.
C9_PostsForever ==
    /\ (ValidConfig /\ posts = 1) ~> (posts = 0)
    /\ (ValidConfig /\ posts = 0) ~> (posts = 1)

\* C10: once startup has completed (the vehicle distribution is built), no
\* step changes the location, the weights, the batch size, the period or the
\* vehicle distribution.
C10_ConfigFrozen == [][pool_bound => config' = config]_vars

C10_Witness ==
    /\ cycle >= 2
    /\ pc = "post"
    /\ Len(vehicles) = 2
    /\ Len(vehicle_distribution) = 3

==========================================================================
